---- MODULE Spec2Model ----
(***************************************************************************)
(* Transfer state machine and CRUD engine of the numismatics service        *)
(* (src/numismatics/api.py) over a READ COMMITTED store.                    *)
(* Each request runs in one transaction (session_middleware); a statement   *)
(* sees the rows committed when it runs plus the rows its own transaction   *)
(* flushed; SELECT ... FOR UPDATE takes the row lock of a Money row until   *)
(* the transaction ends; the session flushes pending attribute changes as   *)
(* UPDATE ... WHERE id = ? statements at commit.  Columns no handler of the *)
(* transfer workflow reads (comment, created_at, the descriptive fields of  *)
(* Money) are left out of the rows.                                         *)
(***************************************************************************)
EXTENDS Integers, Sequences, FiniteSets, TLC

\* ---------------------------------------------------------------- bounds
NProcs == 3          \* concurrent requests, one transaction each
MaxTransfer == 2     \* rows the transfer table may hold
NClients == 2        \* requests to the CRUD routes, one transaction each

\* ---------------------------------------------------------------- tables
NULL == 0
Procs == 1..NProcs
CrudProcs == 1..NClients
AccountIds == {1, 2, 3}      \* rows of table account
AdminIds == {1}              \* accounts with is_admin
MoneyIds == {1}              \* rows of table money
TransferIds == 1..MaxTransfer
SchemeAccountIds == AccountIds \cup {4}   \* account ids a request may name
LockIds == 1..(Cardinality(MoneyIds) + NProcs)   \* ids table money may come to hold
Names == {1, 2, 4}   \* usernames: of an administrator, of another account, of none
CatalogIds == {1, 2}             \* catalog ids a request may name
SchemeMoneyIds == MoneyIds \cup {2}   \* money ids a request may name

\* MoneyResolver.fields: the catalog references of a Money row
fields == {"type_money", "currency", "mint", "issuing_state"}

initial == "initial"
approved == "approved"
declined == "declined"
StatusTransfer == {initial, approved, declined}

VARIABLES
    Account,     \* table account: sequence of rows, id = index
    Catalog,     \* the four catalog tables, by field of MoneyResolver.fields
    Money,       \* table money: sequence of rows, id = index
    Transfer,    \* table transfer: sequence of rows, id = index
    row_lock,    \* holder of the FOR UPDATE lock of each money row (0: free)
    now,         \* clock read by datetime.now
    pc,          \* position of each request in its handler
    request,     \* the request each process is serving
    transfer,    \* handler local: the Transfer the request read
    stamp,       \* handler local: datetime.now() read by the handler
    response,    \* the request answered last, with its result
    history      \* the requests answered so far (kept under SpecSerial only)

vars == <<Account, Catalog, Money, Transfer, row_lock, now, pc, request, transfer,
          stamp, response, history>>

\* Account.is_admin of the account with id user
is_admin(user) == Account[user].is_admin

NoRow == [id |-> NULL]

Request(op, user, obj_id, source, destination, money) ==
    [op |-> op, user |-> user, obj_id |-> obj_id,
     source |-> source, destination |-> destination, money |-> money]

NoRequest == Request("none", 0, 0, 0, 0, 0)

\* a request to a CRUD route of resolver model: the credentials' username,
\* the id of the account it resolves to (0: none), the path id and the body
CrudRequest(op, model, name, user, obj_id, scheme) ==
    [op |-> op, user |-> user.id, obj_id |-> obj_id,
     source |-> 0, destination |-> 0, money |-> 0,
     name |-> name, model |-> model, scheme |-> scheme]

\* ------------------------------------------------------- the SQL layer
\* sql.get_filter_by_existing, had it kept the deleted rows
get_filter_keeps_deleted(row) == TRUE

\* sql.get_filter_by_existing: model.deleted_at == None
get_filter_by_existing(row) == row.deleted_at = NULL

\* READ COMMITTED: a statement of transaction p sees committed rows and the
\* rows p itself flushed (xmin = p until p commits).
visible(p, row) == row.xmin \in {0, p}

\* TransferResolver.get_filtration(user), without the status filter
get_filtration_any_status(user, row) ==
    is_admin(user) \/ row.destination = user

\* TransferResolver.get_filtration(user), without the destination filter
get_filtration_any_destination(user, row) == row.status = initial

\* TransferResolver.get_filtration(user)
get_filtration(user, row) ==
    /\ row.status = initial
    /\ (is_admin(user) \/ row.destination = user)

\* TransferResolver.get_filtration_by_source(source, money), without the
\* status filter
get_filtration_by_source_any_status(source, money, row) ==
    /\ row.source = source
    /\ row.money = money

\* TransferResolver.get_filtration_by_source(source, money)
get_filtration_by_source(source, money, row) ==
    /\ row.source = source
    /\ row.money = money
    /\ row.status = initial

\* MoneyResolver.get_filtration(user), had it let an administrator see all
money_filtration_admin_sees_all(user, row) == is_admin(user) \/ row.user = user

\* MoneyResolver.get_filtration(user)
money_filtration(user, row) == row.user = user

\* CrudResolver.get_instance_by_id on Transfer: the row, or NoRow for None
get_instance_by_id(table, p, obj_id, user) ==
    IF /\ obj_id \in DOMAIN table
       /\ visible(p, table[obj_id])
       /\ get_filter_by_existing(table[obj_id])
       /\ get_filtration(user, table[obj_id])
    THEN table[obj_id]
    ELSE NoRow

\* select(...).order_by(model.id): the rows by ascending id
RECURSIVE order_by_id(_)
order_by_id(rows) ==
    IF rows = {}
    THEN <<>>
    ELSE LET first == CHOOSE r \in rows : \A o \in rows : r.id <= o.id
         IN  <<first>> \o order_by_id(rows \ {first})

\* CrudResolver.get_all on Transfer: sql.get_all_instance with get_filtration
get_all_instance(table, p, user) ==
    order_by_id({table[i] : i \in {j \in DOMAIN table :
                                      /\ visible(p, table[j])
                                      /\ get_filter_by_existing(table[j])
                                      /\ get_filtration(user, table[j])}})

\* sql.get_instance_by_id(session, id, Account)
get_account(id) ==
    IF id \in DOMAIN Account /\ get_filter_by_existing(Account[id])
    THEN Account[id]
    ELSE NoRow

\* sql.get_instance_by_id on Money, had select_and_filter kept deleted rows
get_money_with_deleted(table, id) ==
    IF id \in DOMAIN table THEN table[id] ELSE NoRow

\* sql.get_instance_by_id(session, id, Money, with_for_update): the row read
get_money(table, id) ==
    IF id \in DOMAIN table /\ get_filter_by_existing(table[id])
    THEN table[id]
    ELSE NoRow

\* SELECT ... FOR UPDATE returns at once when no row matches, and otherwise
\* when no other transaction holds the row's lock.
for_update_ready(p, id) ==
    get_money(Money, id) = NoRow \/ row_lock[id] \in {0, p}

\* sql.get_all_instance(session, Transfer, get_filtration_by_source(...))
duplicate_transfers(table, p, source, money) ==
    {i \in DOMAIN table :
        /\ visible(p, table[i])
        /\ get_filter_by_existing(table[i])
        /\ get_filtration_by_source(source, money, table[i])}

\* Index uniq_transfer, had it been declared on rows that are not deleted
uniq_transfer_not_deleted(row, other) ==
    /\ row.status = initial
    /\ other.status = initial
    /\ other.deleted_at = NULL
    /\ row.source = other.source
    /\ row.money = other.money

\* Index uniq_transfer: UNIQUE (source, money) WHERE status = 'initial'
uniq_transfer(row, other) ==
    /\ row.status = initial
    /\ other.status = initial
    /\ row.source = other.source
    /\ row.money = other.money

\* rows the unique index uniq_transfer holds against the insert of row
conflicts(table, row) == {i \in DOMAIN table : uniq_transfer(row, table[i])}

\* the end of a transaction, had it kept its row locks
release_nothing(p) == row_lock

\* the end of a transaction releases the row locks it holds
release(p) == [m \in DOMAIN row_lock |-> IF row_lock[m] = p THEN 0 ELSE row_lock[m]]

\* the request ends: the middleware commits or rolls back, the locks of the
\* transaction are released and the response is sent
\* detail: the rows of a result, or the keys a MissingObjectsError carries
reply(p, req, result, detail) ==
    /\ pc' = [pc EXCEPT ![p] = "done"]
    /\ row_lock' = release(p)
    /\ request' = [request EXCEPT ![p] = NoRequest]
    /\ transfer' = [transfer EXCEPT ![p] = NoRow]
    /\ stamp' = [stamp EXCEPT ![p] = NULL]
    /\ response' = [request |-> req, outcome |-> result, detail |-> detail]
    /\ history' = IF history.on
                  THEN [history EXCEPT !.log = Append(@, response')]
                  ELSE history

\* a response without rows or keys
finish(p, req, result) == reply(p, req, result, <<>>)

\* the handler goes on to its next statement
goto(p, label) ==
    /\ pc' = [pc EXCEPT ![p] = label]
    /\ UNCHANGED <<response, history>>

\* errors.py: the subclasses of BaseError
TypedErrors ==
    {"UndefinedError", "UnauthorizedError", "MissingObjectsError",
     "OwnerMismatchError", "UniqueError", "SelfTransferError"}

\* ------------------------------------------------------- the handlers
InitTables ==
    /\ Account = [a \in AccountIds |->
                      [id |-> a, name |-> a, is_admin |-> a \in AdminIds,
                       deleted_at |-> NULL]]
    /\ Catalog = [k \in fields |-> <<[id |-> 1, deleted_at |-> NULL]>>]
    /\ Money \in [MoneyIds -> [id : MoneyIds, user : AccountIds, deleted_at : {NULL},
                                type_money : {1}, currency : {1}, mint : {1},
                                issuing_state : {1}]]
    /\ \A m \in MoneyIds : Money[m].id = m
    /\ Transfer = <<>>
    /\ row_lock = [m \in LockIds |-> 0]
    /\ now = 1
    /\ pc = [p \in Procs |-> "idle"]
    /\ request = [p \in Procs |-> NoRequest]
    /\ transfer = [p \in Procs |-> NoRow]
    /\ stamp = [p \in Procs |-> NULL]
    /\ response = [request |-> NoRequest, outcome |-> "none", detail |-> <<>>]

Init ==
    /\ InitTables
    /\ history = [on |-> FALSE, init |-> <<>>, log |-> <<>>]

\* datetime.now(timezone.utc): every reading is later than the one before
read_clock(p) ==
    /\ stamp' = [stamp EXCEPT ![p] = now]
    /\ now' = now + 1

\* TransferResolver.move_money: the value it assigns to money.user
move_money(t, user) == user

\* TransferResolver.move_money, had it left closed_at alone
approve_update_status_only(t, at) == [t EXCEPT !.status = approved]

\* TransferResolver.move_money: the columns it sets on the transfer
approve_update(t, at) == [t EXCEPT !.closed_at = at, !.status = approved]

\* TransferResolver.decline, had it left closed_at alone
decline_update_status_only(t, at) == [t EXCEPT !.status = declined]

\* TransferResolver.decline: the columns it sets on the transfer
decline_update(t, at) == [t EXCEPT !.closed_at = at, !.status = declined]

\* ---- TransferResolver.approve
\* transfer = self.get_instance_by_id(session, obj_id, user)
approve_get_instance(p) ==
    /\ pc[p] = "idle"
    /\ \E user \in AccountIds, obj_id \in TransferIds :
        LET req == Request("approve", user, obj_id, 0, 0, 0)
            t == get_instance_by_id(Transfer, p, obj_id, user)
        IN  IF t = NoRow
            THEN finish(p, req, "UndefinedError")
            ELSE /\ goto(p, "approve_money")
                 /\ request' = [request EXCEPT ![p] = req]
                 /\ transfer' = [transfer EXCEPT ![p] = t]
                 /\ UNCHANGED <<row_lock, stamp>>
    /\ UNCHANGED <<Money, Transfer, now>>
    /\ UNCHANGED <<Account, Catalog>>

\* approve, had it closed the transfer before the owner check: the exception
\* handler answers MissingObjectsError and the session commits the change
approve_money_assigns_first(p) ==
    /\ pc[p] = "approve_money"
    /\ for_update_ready(p, transfer[p].money)
    /\ LET money == get_money(Money, transfer[p].money) IN
       IF money # NoRow /\ money.user = transfer[p].source
       THEN /\ goto(p, "approve_commit")
            /\ row_lock' = [row_lock EXCEPT ![money.id] = p]
            /\ read_clock(p)
            /\ UNCHANGED <<request, transfer, Transfer>>
       ELSE /\ Transfer' = [Transfer EXCEPT ![transfer[p].id] = approve_update(@, now)]
            /\ finish(p, request[p], "MissingObjectsError")
            /\ UNCHANGED now
    /\ UNCHANGED <<Account, Catalog, Money>>

\* money = sql.get_instance_by_id(..., with_for_update); the owner check;
\* move_money reads the clock, or MissingObjectsError is raised
approve_money(p) ==
    /\ pc[p] = "approve_money"
    /\ for_update_ready(p, transfer[p].money)
    /\ LET money == get_money(Money, transfer[p].money) IN
       IF money # NoRow /\ money.user = transfer[p].source
       THEN /\ goto(p, "approve_commit")
            /\ row_lock' = [row_lock EXCEPT ![money.id] = p]
            /\ read_clock(p)
            /\ UNCHANGED <<request, transfer>>
       ELSE /\ finish(p, request[p], "MissingObjectsError")
            /\ UNCHANGED now
    /\ UNCHANGED <<Money, Transfer>>
    /\ UNCHANGED <<Account, Catalog>>

\* session commit: UPDATE transfer SET closed_at, status WHERE id;
\* UPDATE money SET user WHERE id
approve_commit(p) ==
    /\ pc[p] = "approve_commit"
    /\ Transfer' = [Transfer EXCEPT ![transfer[p].id] = approve_update(@, stamp[p])]
    /\ Money' = [Money EXCEPT ![transfer[p].money].user =
                                  move_money(transfer[p], request[p].user)]
    /\ finish(p, request[p], "ok")
    /\ UNCHANGED now
    /\ UNCHANGED <<Account, Catalog>>

\* ---- TransferResolver.decline
decline_get_instance(p) ==
    /\ pc[p] = "idle"
    /\ \E user \in AccountIds, obj_id \in TransferIds :
        LET req == Request("decline", user, obj_id, 0, 0, 0)
            t == get_instance_by_id(Transfer, p, obj_id, user)
        IN  IF t = NoRow
            THEN /\ finish(p, req, "UndefinedError")
                 /\ UNCHANGED now
            ELSE /\ goto(p, "decline_commit")
                 /\ request' = [request EXCEPT ![p] = req]
                 /\ transfer' = [transfer EXCEPT ![p] = t]
                 /\ read_clock(p)
                 /\ UNCHANGED row_lock
    /\ UNCHANGED <<Money, Transfer>>
    /\ UNCHANGED <<Account, Catalog>>

\* session commit: UPDATE transfer SET closed_at, status WHERE id
decline_commit(p) ==
    /\ pc[p] = "decline_commit"
    /\ Transfer' = [Transfer EXCEPT ![transfer[p].id] = decline_update(@, stamp[p])]
    /\ finish(p, request[p], "ok")
    /\ UNCHANGED <<Money, now>>
    /\ UNCHANGED <<Account, Catalog>>

\* ---- TransferResolver.create_transfer
\* requests that may still insert a row (caps the table at MaxTransfer rows)
creating == {q \in Procs : pc[q] \in {"create_duplicates", "create_flush"}}

\* validate_transfer, had it checked source against destination first
validate_transfer_self_first(source, destination, money) ==
    IF source = NoRow \/ destination = NoRow \/ money = NoRow
    THEN "MissingObjectsError"
    ELSE IF source.id = destination.id
    THEN "SelfTransferError"
    ELSE IF money.user # source.id
    THEN "OwnerMismatchError"
    ELSE "ok"

\* validate_transfer, had it left out the owner check
validate_transfer_any_owner(source, destination, money) ==
    IF source = NoRow \/ destination = NoRow \/ money = NoRow
    THEN "MissingObjectsError"
    ELSE IF source.id = destination.id
    THEN "SelfTransferError"
    ELSE "ok"

\* validate_transfer: the outcome of its checks before the duplicate query
validate_transfer(source, destination, money) ==
    IF source = NoRow \/ destination = NoRow \/ money = NoRow
    THEN "MissingObjectsError"
    ELSE IF money.user # source.id
    THEN "OwnerMismatchError"
    ELSE IF source.id = destination.id
    THEN "SelfTransferError"
    ELSE "ok"

\* get_super_user, then validate_transfer up to its three checks: selects
\* source and destination, locks the money row FOR UPDATE
create_transfer_validate(p) ==
    /\ pc[p] = "idle"
    /\ \E user \in AccountIds :
        IF ~is_admin(user)
        THEN finish(p, Request("create_transfer", user, 0, 0, 0, 0),
                    "UnauthorizedError")
        ELSE \E src \in SchemeAccountIds, dst \in SchemeAccountIds, m \in MoneyIds :
             LET req == Request("create_transfer", user, 0, src, dst, m)
                 check == validate_transfer(get_account(src), get_account(dst),
                                            get_money(Money, m))
             IN  /\ for_update_ready(p, m)
                 /\ IF check = "ok"
                    THEN /\ Len(Transfer) + Cardinality(creating) < MaxTransfer
                         /\ goto(p, "create_duplicates")
                         /\ row_lock' = [row_lock EXCEPT ![m] = p]
                         /\ request' = [request EXCEPT ![p] = req]
                         /\ UNCHANGED <<transfer, stamp>>
                    ELSE finish(p, req, check)
    /\ UNCHANGED <<Money, Transfer, now>>
    /\ UNCHANGED <<Account, Catalog>>

\* duplicate_transfers = sql.get_all_instance(...); raise UniqueError
create_transfer_duplicates(p) ==
    /\ pc[p] = "create_duplicates"
    /\ IF duplicate_transfers(Transfer, p, request[p].source, request[p].money) # {}
       THEN finish(p, request[p], "UniqueError")
       ELSE /\ goto(p, "create_flush")
            /\ UNCHANGED <<row_lock, request, transfer, stamp>>
    /\ UNCHANGED <<Money, Transfer, now>>
    /\ UNCHANGED <<Account, Catalog>>

\* Transfer(...) as create_transfer builds it; xmin: the inserting transaction
new_transfer(table, req, xmin) ==
    [id |-> Len(table) + 1,
     source |-> req.source,
     destination |-> req.destination,
     creater |-> req.user,
     money |-> req.money,
     status |-> initial,
     closed_at |-> NULL,
     deleted_at |-> NULL,
     xmin |-> xmin]

\* session.add(transfer); session.flush(): INSERT under the unique index;
\* it waits for an uncommitted conflicting row, and fails on a committed one
create_transfer_flush(p) ==
    /\ pc[p] = "create_flush"
    /\ LET row == new_transfer(Transfer, request[p], p) IN
       /\ \A i \in conflicts(Transfer, row) : Transfer[i].xmin = 0
       /\ IF conflicts(Transfer, row) # {}
          THEN /\ finish(p, request[p], "IntegrityError")
               /\ UNCHANGED Transfer
          ELSE /\ goto(p, "create_commit")
               /\ Transfer' = Append(Transfer, row)
               /\ UNCHANGED <<row_lock, request, transfer, stamp>>
    /\ UNCHANGED <<Money, now>>
    /\ UNCHANGED <<Account, Catalog>>

\* session commit: the inserted row becomes visible to every transaction
create_transfer_commit(p) ==
    /\ pc[p] = "create_commit"
    /\ Transfer' = [i \in DOMAIN Transfer |->
                        IF Transfer[i].xmin = p
                        THEN [Transfer[i] EXCEPT !.xmin = 0]
                        ELSE Transfer[i]]
    /\ finish(p, request[p], "ok")
    /\ UNCHANGED <<Money, now>>
    /\ UNCHANGED <<Account, Catalog>>

\* ---- CrudResolver.delete_by_id on /transfer (get_super_user)
delete_transfer(p) ==
    /\ pc[p] = "idle"
    /\ \E user \in AccountIds :
        IF ~is_admin(user)
        THEN /\ finish(p, Request("delete_transfer", user, 0, 0, 0, 0),
                       "UnauthorizedError")
             /\ UNCHANGED now
        ELSE \E obj_id \in TransferIds :
             LET req == Request("delete_transfer", user, obj_id, 0, 0, 0)
                 t == get_instance_by_id(Transfer, p, obj_id, user)
             IN  IF t = NoRow
                 THEN /\ finish(p, req, "UndefinedError")
                      /\ UNCHANGED now
                 ELSE /\ goto(p, "delete_transfer_commit")
                      /\ request' = [request EXCEPT ![p] = req]
                      /\ transfer' = [transfer EXCEPT ![p] = t]
                      /\ read_clock(p)
                      /\ UNCHANGED row_lock
    /\ UNCHANGED <<Money, Transfer>>
    /\ UNCHANGED <<Account, Catalog>>

\* session commit: UPDATE transfer SET deleted_at WHERE id
delete_transfer_commit(p) ==
    /\ pc[p] = "delete_transfer_commit"
    /\ Transfer' = [Transfer EXCEPT ![transfer[p].id].deleted_at = stamp[p]]
    /\ finish(p, request[p], "ok")
    /\ UNCHANGED <<Money, now>>
    /\ UNCHANGED <<Account, Catalog>>

\* ---- CrudResolver.get_by_id and get_all on /transfer (get_current_user)
transfer_get_by_id(p) ==
    /\ pc[p] = "idle"
    /\ \E user \in AccountIds, obj_id \in TransferIds :
        LET req == Request("transfer_get_by_id", user, obj_id, 0, 0, 0)
            t == get_instance_by_id(Transfer, p, obj_id, user)
        IN  IF t = NoRow
            THEN finish(p, req, "UndefinedError")
            ELSE reply(p, req, "ok", <<t>>)
    /\ UNCHANGED <<Account, Catalog, Money, Transfer, now>>

transfer_get_all(p) ==
    /\ pc[p] = "idle"
    /\ \E user \in AccountIds :
        reply(p, Request("transfer_get_all", user, 0, 0, 0, 0), "ok",
              get_all_instance(Transfer, p, user))
    /\ UNCHANGED <<Account, Catalog, Money, Transfer, now>>

\* ---- MoneyResolver.delete_by_id (get_current_user, owner filtration)
delete_money(p) ==
    /\ pc[p] = "idle"
    /\ \E user \in AccountIds, obj_id \in MoneyIds :
        LET req == Request("delete_money", user, obj_id, 0, 0, 0)
            money == get_money(Money, obj_id)
        IN  IF money = NoRow \/ ~money_filtration(user, money)
            THEN /\ finish(p, req, "UndefinedError")
                 /\ UNCHANGED now
            ELSE /\ goto(p, "delete_money_commit")
                 /\ request' = [request EXCEPT ![p] = req]
                 /\ read_clock(p)
                 /\ UNCHANGED <<row_lock, transfer>>
    /\ UNCHANGED <<Money, Transfer>>
    /\ UNCHANGED <<Account, Catalog>>

\* session commit: UPDATE money SET deleted_at WHERE id, which waits for
\* the row lock another transaction holds FOR UPDATE
delete_money_commit(p) ==
    /\ pc[p] = "delete_money_commit"
    /\ row_lock[request[p].obj_id] \in {0, p}
    /\ Money' = [Money EXCEPT ![request[p].obj_id].deleted_at = stamp[p]]
    /\ finish(p, request[p], "ok")
    /\ UNCHANGED <<Transfer, now>>
    /\ UNCHANGED <<Account, Catalog>>

Next ==
    \E p \in Procs :
        \/ create_transfer_validate(p)
        \/ create_transfer_duplicates(p)
        \/ create_transfer_flush(p)
        \/ create_transfer_commit(p)
        \/ approve_get_instance(p)
        \/ approve_money(p)
        \/ approve_commit(p)
        \/ decline_get_instance(p)
        \/ decline_commit(p)
        \/ delete_transfer(p)
        \/ delete_transfer_commit(p)
        \/ delete_money(p)
        \/ delete_money_commit(p)
        \/ transfer_get_by_id(p)
        \/ transfer_get_all(p)

Spec == Init /\ [][Next]_vars

\* ------------------------------------------------------- the CRUD engine
\* request p arrives; the requests are numbered in the order they arrive
arrives(p) == pc[p] = "idle" /\ \A q \in 1..(p - 1) : pc[q] # "idle"

\* depends.get_current_user: the account whose name is the credentials'
\* username, or UnauthorizedError
get_current_user(table, name) ==
    LET found == {i \in DOMAIN table : table[i].name = name} IN
    IF found = {}
    THEN [error |-> "UnauthorizedError", user |-> NoRow]
    ELSE [error |-> "none", user |-> table[CHOOSE i \in found : TRUE]]

\* depends.get_super_user(user = Depends(get_current_user))
get_super_user(current) ==
    IF current.error = "none" /\ ~current.user.is_admin
    THEN [error |-> "UnauthorizedError", user |-> NoRow]
    ELSE current

\* CrudResolver.get_filtration: None
no_filtration(row) == TRUE

\* sql.get_instance_by_id(session, obj_id, model, filtration)
select_by_id(table, obj_id, filtration(_)) ==
    IF /\ obj_id \in DOMAIN table
       /\ get_filter_by_existing(table[obj_id])
       /\ filtration(table[obj_id])
    THEN table[obj_id]
    ELSE NoRow

\* sql.get_all_instance(session, model, filtration)
select_all(table, filtration(_)) ==
    order_by_id({table[i] : i \in {j \in DOMAIN table :
                                      /\ get_filter_by_existing(table[j])
                                      /\ filtration(table[j])}})

\* MoneyResolver.validate, had it not filtered the deleted catalog rows
missing_keys_not_existing(catalog, scheme) ==
    {k \in fields : scheme[k] \notin DOMAIN catalog[k]}

\* MoneyResolver.validate: the keys of fields whose row is not found
missing_keys(catalog, scheme) ==
    {k \in fields : select_by_id(catalog[k], scheme[k], no_filtration) = NoRow}

\* Account.name unique=True: the rows that hold name against row id
name_taken(table, id, name) ==
    {i \in DOMAIN table : i # id /\ table[i].name = name}

\* ---- CatalogResolver.create (get_super_user)
catalog_create(p) ==
    /\ arrives(p)
    /\ \E name \in Names, k \in fields :
        LET admin == get_super_user(get_current_user(Account, name))
            req == CrudRequest("create", k, name, admin.user, 0, <<>>)
            obj == [id |-> Len(Catalog[k]) + 1, deleted_at |-> NULL]
        IN  IF admin.error # "none"
            THEN /\ finish(p, req, admin.error)
                 /\ UNCHANGED Catalog
            ELSE /\ Len(Catalog[k]) < Cardinality(CatalogIds)
                 /\ Catalog' = [Catalog EXCEPT ![k] = Append(@, obj)]
                 /\ reply(p, req, "ok", <<obj>>)
    /\ UNCHANGED <<Account, Money, Transfer, now>>

\* ---- CrudResolver.delete_by_id on a catalog (get_super_user)
catalog_delete(p) ==
    /\ arrives(p)
    /\ \E name \in Names, k \in fields, obj_id \in CatalogIds :
        LET user == get_super_user(get_current_user(Account, name))
            req == CrudRequest("delete_by_id", k, name, user.user, obj_id, <<>>)
            obj == select_by_id(Catalog[k], obj_id, no_filtration)
        IN  IF user.error # "none"
            THEN /\ finish(p, req, user.error)
                 /\ UNCHANGED now
            ELSE IF obj = NoRow
            THEN /\ finish(p, req, "UndefinedError")
                 /\ UNCHANGED now
            ELSE /\ goto(p, "catalog_delete_commit")
                 /\ request' = [request EXCEPT ![p] = req]
                 /\ read_clock(p)
                 /\ UNCHANGED <<row_lock, transfer>>
    /\ UNCHANGED <<Account, Catalog, Money, Transfer>>

\* session commit: UPDATE <catalog> SET deleted_at WHERE id
catalog_delete_commit(p) ==
    /\ pc[p] = "catalog_delete_commit"
    /\ Catalog' = [Catalog EXCEPT ![request[p].model][request[p].obj_id].deleted_at
                                      = stamp[p]]
    /\ finish(p, request[p], "ok")
    /\ UNCHANGED <<Account, Money, Transfer, now>>

\* ---- CrudResolver.get_by_id on a catalog (get_current_user)
catalog_get_by_id(p) ==
    /\ arrives(p)
    /\ \E name \in Names, k \in fields, obj_id \in CatalogIds :
        LET user == get_current_user(Account, name)
            req == CrudRequest("get_by_id", k, name, user.user, obj_id, <<>>)
            obj == select_by_id(Catalog[k], obj_id, no_filtration)
        IN  IF user.error # "none"
            THEN finish(p, req, user.error)
            ELSE IF obj = NoRow
            THEN finish(p, req, "UndefinedError")
            ELSE reply(p, req, "ok", <<obj>>)
    /\ UNCHANGED <<Account, Catalog, Money, Transfer, now>>

\* ---- CrudResolver.get_all on a catalog (get_current_user)
catalog_get_all(p) ==
    /\ arrives(p)
    /\ \E name \in Names, k \in fields :
        LET user == get_current_user(Account, name)
            req == CrudRequest("get_all", k, name, user.user, 0, <<>>)
        IN  IF user.error # "none"
            THEN finish(p, req, user.error)
            ELSE reply(p, req, "ok", select_all(Catalog[k], no_filtration))
    /\ UNCHANGED <<Account, Catalog, Money, Transfer, now>>

\* ---- MoneyResolver.create: CrudUpdateResolver.create_model
\* self.validate(session, scheme)
money_create(p) ==
    /\ arrives(p)
    /\ \E name \in Names, scheme \in [fields -> CatalogIds] :
        LET user == get_current_user(Account, name)
            req == CrudRequest("create", "money", name, user.user, 0, scheme)
            missing == missing_keys(Catalog, scheme)
        IN  IF user.error # "none"
            THEN finish(p, req, user.error)
            ELSE IF missing # {}
            THEN reply(p, req, "MissingObjectsError", missing)
            ELSE /\ goto(p, "money_create_commit")
                 /\ request' = [request EXCEPT ![p] = req]
                 /\ UNCHANGED <<row_lock, transfer, stamp>>
    /\ UNCHANGED <<Account, Catalog, Money, Transfer, now>>

\* create_model, had get_new_instance_fields named the first account
new_money_of_first_account(table, req) ==
    [id |-> Len(table) + 1,
     user |-> 1,
     deleted_at |-> NULL,
     type_money |-> req.scheme.type_money,
     currency |-> req.scheme.currency,
     mint |-> req.scheme.mint,
     issuing_state |-> req.scheme.issuing_state]

\* Money(**scheme.dict(), **get_new_instance_fields(user))
new_money(table, req) ==
    [id |-> Len(table) + 1,
     user |-> req.user,
     deleted_at |-> NULL,
     type_money |-> req.scheme.type_money,
     currency |-> req.scheme.currency,
     mint |-> req.scheme.mint,
     issuing_state |-> req.scheme.issuing_state]

\* session.add(obj); session.flush(); session commit
money_create_commit(p) ==
    /\ pc[p] = "money_create_commit"
    /\ Money' = Append(Money, new_money(Money, request[p]))
    /\ reply(p, request[p], "ok", <<new_money(Money, request[p])>>)
    /\ UNCHANGED <<Account, Catalog, Transfer, now>>

\* ---- MoneyResolver.update: CrudUpdateResolver.update_model
\* self.validate(session, scheme); obj = self.get_instance_by_id(...)
money_update(p) ==
    /\ arrives(p)
    /\ \E name \in Names, obj_id \in SchemeMoneyIds, scheme \in [fields -> CatalogIds] :
        LET user == get_current_user(Account, name)
            req == CrudRequest("update", "money", name, user.user, obj_id, scheme)
            missing == missing_keys(Catalog, scheme)
            obj == select_by_id(Money, obj_id, LAMBDA row : money_filtration(user.user.id, row))
        IN  IF user.error # "none"
            THEN finish(p, req, user.error)
            ELSE IF missing # {}
            THEN reply(p, req, "MissingObjectsError", missing)
            ELSE IF obj = NoRow
            THEN finish(p, req, "UndefinedError")
            ELSE /\ goto(p, "money_update_commit")
                 /\ request' = [request EXCEPT ![p] = req]
                 /\ UNCHANGED <<row_lock, transfer, stamp>>
    /\ UNCHANGED <<Account, Catalog, Money, Transfer, now>>

\* for field, value in scheme.dict().items(): setattr(obj, field, value)
update_money(row, scheme) ==
    [row EXCEPT !.type_money = scheme.type_money,
                !.currency = scheme.currency,
                !.mint = scheme.mint,
                !.issuing_state = scheme.issuing_state]

\* session commit: UPDATE money SET ... WHERE id, which waits for the row
\* lock another transaction holds FOR UPDATE
money_update_commit(p) ==
    /\ pc[p] = "money_update_commit"
    /\ row_lock[request[p].obj_id] \in {0, p}
    /\ Money' = [Money EXCEPT ![request[p].obj_id] = update_money(@, request[p].scheme)]
    /\ reply(p, request[p], "ok",
             <<update_money(Money[request[p].obj_id], request[p].scheme)>>)
    /\ UNCHANGED <<Account, Catalog, Transfer, now>>

\* ---- MoneyResolver.get_by_id: get_instance_by_id on either branch
money_get_by_id(p) ==
    /\ arrives(p)
    /\ \E name \in Names, obj_id \in SchemeMoneyIds :
        LET user == get_current_user(Account, name)
            req == CrudRequest("get_by_id", "money", name, user.user, obj_id, <<>>)
            obj == select_by_id(Money, obj_id, LAMBDA row : money_filtration(user.user.id, row))
        IN  IF user.error # "none"
            THEN finish(p, req, user.error)
            ELSE IF obj = NoRow
            THEN finish(p, req, "UndefinedError")
            ELSE reply(p, req, "ok", <<obj>>)
    /\ UNCHANGED <<Account, Catalog, Money, Transfer, now>>

\* ---- CrudResolver.get_all on /money
money_get_all(p) ==
    /\ arrives(p)
    /\ \E name \in Names :
        LET user == get_current_user(Account, name)
            req == CrudRequest("get_all", "money", name, user.user, 0, <<>>)
        IN  IF user.error # "none"
            THEN finish(p, req, user.error)
            ELSE reply(p, req, "ok",
                       select_all(Money, LAMBDA row : money_filtration(user.user.id, row)))
    /\ UNCHANGED <<Account, Catalog, Money, Transfer, now>>

\* ---- MoneyResolver.get_all_money_for_super_user (get_super_user)
get_all_money_for_super_user(p) ==
    /\ arrives(p)
    /\ \E name \in Names :
        LET user == get_super_user(get_current_user(Account, name))
            req == CrudRequest("get_all_money_for_super_user", "money", name,
                               user.user, 0, <<>>)
        IN  IF user.error # "none"
            THEN finish(p, req, user.error)
            ELSE reply(p, req, "ok", select_all(Money, no_filtration))
    /\ UNCHANGED <<Account, Catalog, Money, Transfer, now>>

\* ---- MoneyResolver.delete_by_id with the credentials resolved
money_delete(p) ==
    /\ arrives(p)
    /\ \E name \in Names, obj_id \in SchemeMoneyIds :
        LET user == get_current_user(Account, name)
            req == CrudRequest("delete_by_id", "money", name, user.user, obj_id, <<>>)
            obj == select_by_id(Money, obj_id, LAMBDA row : money_filtration(user.user.id, row))
        IN  IF user.error # "none"
            THEN /\ finish(p, req, user.error)
                 /\ UNCHANGED now
            ELSE IF obj = NoRow
            THEN /\ finish(p, req, "UndefinedError")
                 /\ UNCHANGED now
            ELSE /\ goto(p, "delete_money_commit")
                 /\ request' = [request EXCEPT ![p] = req]
                 /\ read_clock(p)
                 /\ UNCHANGED <<row_lock, transfer>>
    /\ UNCHANGED <<Account, Catalog, Money, Transfer>>

\* AccountResolver.validate: an account that is not deleted has the name
account_validate(table, scheme) ==
    \E i \in DOMAIN table :
        get_filter_by_existing(table[i]) /\ table[i].name = scheme.name

\* ---- AccountResolver.create (get_super_user): create_model
account_create(p) ==
    /\ arrives(p)
    /\ \E name \in Names, scheme \in [name : Names, is_admin : BOOLEAN] :
        LET user == get_super_user(get_current_user(Account, name))
            req == CrudRequest("create", "account", name, user.user, 0, scheme)
        IN  IF user.error # "none"
            THEN finish(p, req, user.error)
            ELSE IF account_validate(Account, scheme)
            THEN finish(p, req, "UniqueError")
            ELSE /\ goto(p, "account_create_commit")
                 /\ request' = [request EXCEPT ![p] = req]
                 /\ UNCHANGED <<row_lock, transfer, stamp>>
    /\ UNCHANGED <<Account, Catalog, Money, Transfer, now>>

\* Account(**scheme.dict())
new_account(table, req) ==
    [id |-> Len(table) + 1,
     name |-> req.scheme.name,
     is_admin |-> req.scheme.is_admin,
     deleted_at |-> NULL]

\* session.add(obj); session.flush(): INSERT under the unique constraint on
\* name; session commit
account_create_commit(p) ==
    /\ pc[p] = "account_create_commit"
    /\ IF name_taken(Account, 0, request[p].scheme.name) # {}
       THEN /\ finish(p, request[p], "IntegrityError")
            /\ UNCHANGED Account
       ELSE /\ Account' = Append(Account, new_account(Account, request[p]))
            /\ reply(p, request[p], "ok", <<new_account(Account, request[p])>>)
    /\ UNCHANGED <<Catalog, Money, Transfer, now>>

\* ---- AccountResolver.update (get_super_user): update_model
account_update(p) ==
    /\ arrives(p)
    /\ \E name \in Names, obj_id \in SchemeAccountIds,
          scheme \in [name : Names, is_admin : BOOLEAN] :
        LET user == get_super_user(get_current_user(Account, name))
            req == CrudRequest("update", "account", name, user.user, obj_id, scheme)
            obj == select_by_id(Account, obj_id, no_filtration)
        IN  IF user.error # "none"
            THEN finish(p, req, user.error)
            ELSE IF account_validate(Account, scheme)
            THEN finish(p, req, "UniqueError")
            ELSE IF obj = NoRow
            THEN finish(p, req, "UndefinedError")
            ELSE /\ goto(p, "account_update_commit")
                 /\ request' = [request EXCEPT ![p] = req]
                 /\ UNCHANGED <<row_lock, transfer, stamp>>
    /\ UNCHANGED <<Account, Catalog, Money, Transfer, now>>

\* for field, value in scheme.dict().items(): setattr(obj, field, value)
update_account(row, scheme) ==
    [row EXCEPT !.name = scheme.name, !.is_admin = scheme.is_admin]

\* session commit: UPDATE account SET name, is_admin WHERE id, under the
\* unique constraint on name
account_update_commit(p) ==
    /\ pc[p] = "account_update_commit"
    /\ IF name_taken(Account, request[p].obj_id, request[p].scheme.name) # {}
       THEN /\ finish(p, request[p], "IntegrityError")
            /\ UNCHANGED Account
       ELSE /\ Account' = [Account EXCEPT ![request[p].obj_id] =
                                              update_account(@, request[p].scheme)]
            /\ reply(p, request[p], "ok",
                     <<update_account(Account[request[p].obj_id], request[p].scheme)>>)
    /\ UNCHANGED <<Catalog, Money, Transfer, now>>

\* ---- CrudResolver.delete_by_id on /account (get_super_user)
account_delete(p) ==
    /\ arrives(p)
    /\ \E name \in Names, obj_id \in SchemeAccountIds :
        LET user == get_super_user(get_current_user(Account, name))
            req == CrudRequest("delete_by_id", "account", name, user.user, obj_id, <<>>)
            obj == select_by_id(Account, obj_id, no_filtration)
        IN  IF user.error # "none"
            THEN /\ finish(p, req, user.error)
                 /\ UNCHANGED now
            ELSE IF obj = NoRow
            THEN /\ finish(p, req, "UndefinedError")
                 /\ UNCHANGED now
            ELSE /\ goto(p, "account_delete_commit")
                 /\ request' = [request EXCEPT ![p] = req]
                 /\ read_clock(p)
                 /\ UNCHANGED <<row_lock, transfer>>
    /\ UNCHANGED <<Account, Catalog, Money, Transfer>>

\* session commit: UPDATE account SET deleted_at WHERE id
account_delete_commit(p) ==
    /\ pc[p] = "account_delete_commit"
    /\ Account' = [Account EXCEPT ![request[p].obj_id].deleted_at = stamp[p]]
    /\ finish(p, request[p], "ok")
    /\ UNCHANGED <<Catalog, Money, Transfer, now>>

\* ---- CrudResolver.get_by_id on /account (get_current_user)
account_get_by_id(p) ==
    /\ arrives(p)
    /\ \E name \in Names, obj_id \in SchemeAccountIds :
        LET user == get_current_user(Account, name)
            req == CrudRequest("get_by_id", "account", name, user.user, obj_id, <<>>)
            obj == select_by_id(Account, obj_id, no_filtration)
        IN  IF user.error # "none"
            THEN finish(p, req, user.error)
            ELSE IF obj = NoRow
            THEN finish(p, req, "UndefinedError")
            ELSE reply(p, req, "ok", <<obj>>)
    /\ UNCHANGED <<Account, Catalog, Money, Transfer, now>>

\* ---- CrudResolver.get_all on /account (get_current_user)
account_get_all(p) ==
    /\ arrives(p)
    /\ \E name \in Names :
        LET user == get_current_user(Account, name)
            req == CrudRequest("get_all", "account", name, user.user, 0, <<>>)
        IN  IF user.error # "none"
            THEN finish(p, req, user.error)
            ELSE reply(p, req, "ok", select_all(Account, no_filtration))
    /\ UNCHANGED <<Account, Catalog, Money, Transfer, now>>

\* ---- GET /account/me: get_current_user as the route
account_me(p) ==
    /\ arrives(p)
    /\ \E name \in Names :
        LET user == get_current_user(Account, name)
            req == CrudRequest("me", "account", name, user.user, 0, <<>>)
        IN  IF user.error # "none"
            THEN finish(p, req, user.error)
            ELSE reply(p, req, "ok", <<user.user>>)
    /\ UNCHANGED <<Account, Catalog, Money, Transfer, now>>

\* ---- the catalogs and the items: /type_money, /currency, /mint,
\* /issuing_state and /money create and update
NextMoney ==
    \E p \in CrudProcs :
        \/ catalog_create(p)
        \/ catalog_delete(p)
        \/ catalog_delete_commit(p)
        \/ money_create(p)
        \/ money_create_commit(p)
        \/ money_update(p)
        \/ money_update_commit(p)

SpecMoney == Init /\ [][NextMoney]_vars

\* ---- the tables after create_transfer committed one transfer
InitCrud ==
    /\ Account = [a \in AccountIds |->
                      [id |-> a, name |-> a, is_admin |-> a \in AdminIds,
                       deleted_at |-> NULL]]
    /\ Catalog = [k \in fields |-> <<[id |-> 1, deleted_at |-> NULL]>>]
    /\ Money \in [MoneyIds -> [id : MoneyIds, user : AccountIds, deleted_at : {NULL},
                                type_money : {1}, currency : {1}, mint : {1},
                                issuing_state : {1}]]
    /\ \A m \in MoneyIds : Money[m].id = m
    /\ \E creater \in AdminIds, m \in MoneyIds, destination \in AccountIds :
          /\ destination # Money[m].user
          /\ Transfer = <<new_transfer(<<>>,
                             Request("create_transfer", creater, 0, Money[m].user,
                                     destination, m), 0)>>
    /\ row_lock = [m \in LockIds |-> 0]
    /\ now = 1
    /\ pc = [p \in Procs |-> "idle"]
    /\ request = [p \in Procs |-> NoRequest]
    /\ transfer = [p \in Procs |-> NoRow]
    /\ stamp = [p \in Procs |-> NULL]
    /\ response = [request |-> NoRequest, outcome |-> "none", detail |-> <<>>]
    /\ history = [on |-> FALSE, init |-> <<>>, log |-> <<>>]

\* soft-delete, get_by_id and get_all on every resolver
NextDelete ==
    \E p \in CrudProcs :
        \/ catalog_delete(p)
        \/ catalog_delete_commit(p)
        \/ catalog_get_by_id(p)
        \/ catalog_get_all(p)
        \/ account_delete(p)
        \/ account_delete_commit(p)
        \/ account_get_by_id(p)
        \/ account_get_all(p)
        \/ money_delete(p)
        \/ delete_money_commit(p)
        \/ money_get_by_id(p)
        \/ money_get_all(p)
        \/ get_all_money_for_super_user(p)
        \/ delete_transfer(p)
        \/ delete_transfer_commit(p)
        \/ transfer_get_by_id(p)
        \/ transfer_get_all(p)

SpecDelete == InitCrud /\ [][NextDelete]_vars

\* the routes that take the id of an item or of a transfer
NextAccess ==
    \E p \in CrudProcs :
        \/ money_get_by_id(p)
        \/ money_update(p)
        \/ money_update_commit(p)
        \/ money_delete(p)
        \/ delete_money_commit(p)
        \/ transfer_get_by_id(p)
        \/ approve_get_instance(p)
        \/ approve_money(p)
        \/ approve_commit(p)
        \/ decline_get_instance(p)
        \/ decline_commit(p)

SpecAccess == InitCrud /\ [][NextAccess]_vars

\* the accounts, and the routes that require an administrator
NextAccount ==
    \E p \in CrudProcs :
        \/ account_create(p)
        \/ account_create_commit(p)
        \/ account_update(p)
        \/ account_update_commit(p)
        \/ account_delete(p)
        \/ account_delete_commit(p)
        \/ account_me(p)
        \/ money_get_all(p)
        \/ catalog_create(p)
        \/ catalog_delete(p)
        \/ catalog_delete_commit(p)
        \/ create_transfer_validate(p)
        \/ create_transfer_duplicates(p)
        \/ create_transfer_flush(p)
        \/ create_transfer_commit(p)
        \/ delete_transfer(p)
        \/ delete_transfer_commit(p)

SpecAccount == Init /\ [][NextAccount]_vars

\* the transfer workflow, started with one transfer committed
NextWorkflow ==
    \E p \in Procs :
        \/ create_transfer_validate(p)
        \/ create_transfer_duplicates(p)
        \/ create_transfer_flush(p)
        \/ create_transfer_commit(p)
        \/ approve_get_instance(p)
        \/ approve_money(p)
        \/ approve_commit(p)
        \/ decline_get_instance(p)
        \/ decline_commit(p)

SpecWorkflow == InitCrud /\ [][NextWorkflow]_vars

\* every route that writes, started with one transfer committed
NextOwner ==
    \E p \in CrudProcs :
        \/ money_create(p)
        \/ money_create_commit(p)
        \/ money_update(p)
        \/ money_update_commit(p)
        \/ money_delete(p)
        \/ delete_money_commit(p)
        \/ create_transfer_validate(p)
        \/ create_transfer_duplicates(p)
        \/ create_transfer_flush(p)
        \/ create_transfer_commit(p)
        \/ approve_get_instance(p)
        \/ approve_money(p)
        \/ approve_commit(p)
        \/ decline_get_instance(p)
        \/ decline_commit(p)
        \/ catalog_create(p)
        \/ catalog_delete(p)
        \/ catalog_delete_commit(p)
        \/ account_create(p)
        \/ account_create_commit(p)
        \/ account_update(p)
        \/ account_update_commit(p)
        \/ account_delete(p)
        \/ account_delete_commit(p)

SpecOwner == InitCrud /\ [][NextOwner]_vars

\* ---- the transactions that lock or write an item row, under fair scheduling
\* the first statement of a request
begin(p) ==
    \/ create_transfer_validate(p)
    \/ approve_get_instance(p)
    \/ decline_get_instance(p)
    \/ money_update(p)
    \/ money_delete(p)

\* the statements of a request that has begun, up to the end of its transaction
continue(p) ==
    \/ create_transfer_duplicates(p)
    \/ create_transfer_flush(p)
    \/ create_transfer_commit(p)
    \/ approve_money(p)
    \/ approve_commit(p)
    \/ decline_commit(p)
    \/ money_update_commit(p)
    \/ delete_money_commit(p)

NextLocks == \E p \in CrudProcs : begin(p) \/ continue(p)

\* a statement that can run does run: the server leaves no request it has
\* begun unscheduled forever
SpecLocks ==
    /\ InitCrud
    /\ [][NextLocks]_vars
    /\ \A p \in CrudProcs : WF_vars(continue(p))

\* the transactions that transaction p waits for: the holder of the item row
\* lock at SELECT ... FOR UPDATE and at UPDATE money, the transactions whose
\* uncommitted rows the unique index holds against the INSERT
waits_for(p) ==
    IF pc[p] = "approve_money"
    THEN IF for_update_ready(p, transfer[p].money)
         THEN {}
         ELSE {row_lock[transfer[p].money]}
    ELSE IF pc[p] \in {"money_update_commit", "delete_money_commit"}
    THEN {row_lock[request[p].obj_id]} \ {0, p}
    ELSE IF pc[p] = "create_flush"
    THEN {Transfer[i].xmin :
              i \in conflicts(Transfer, new_transfer(Transfer, request[p], p))} \ {0, p}
    ELSE {}

\* ------------------------------------------------------- serial runs
\* The same handlers run alone, one transaction after another: the result of
\* each on the tables db = [Money, Transfer], as [Money, Transfer, outcome].
failed(db, result) ==
    [Money |-> db.Money, Transfer |-> db.Transfer, outcome |-> result]

\* TransferResolver.create_transfer, run alone
create_transfer_serial(db, req) ==
    IF ~is_admin(req.user)
    THEN failed(db, "UnauthorizedError")
    ELSE LET check == validate_transfer(get_account(req.source),
                                        get_account(req.destination),
                                        get_money(db.Money, req.money))
             row == new_transfer(db.Transfer, req, 0)
         IN  IF check # "ok"
             THEN failed(db, check)
             ELSE IF duplicate_transfers(db.Transfer, 0, req.source, req.money) # {}
             THEN failed(db, "UniqueError")
             ELSE IF conflicts(db.Transfer, row) # {}
             THEN failed(db, "IntegrityError")
             ELSE [Money |-> db.Money,
                   Transfer |-> Append(db.Transfer, row),
                   outcome |-> "ok"]

\* TransferResolver.approve, run alone (closed_at: any reading of the clock)
approve_serial(db, req) ==
    LET t == get_instance_by_id(db.Transfer, 0, req.obj_id, req.user) IN
    IF t = NoRow
    THEN failed(db, "UndefinedError")
    ELSE LET money == get_money(db.Money, t.money) IN
         IF money # NoRow /\ money.user = t.source
         THEN [Money |-> [db.Money EXCEPT ![money.id].user = move_money(t, req.user)],
               Transfer |-> [db.Transfer EXCEPT ![t.id] = approve_update(@, 1)],
               outcome |-> "ok"]
         ELSE failed(db, "MissingObjectsError")

\* TransferResolver.decline, run alone
decline_serial(db, req) ==
    LET t == get_instance_by_id(db.Transfer, 0, req.obj_id, req.user) IN
    IF t = NoRow
    THEN failed(db, "UndefinedError")
    ELSE [Money |-> db.Money,
          Transfer |-> [db.Transfer EXCEPT ![t.id] = decline_update(@, 1)],
          outcome |-> "ok"]

serial(db, req) ==
    CASE req.op = "create_transfer" -> create_transfer_serial(db, req)
      [] req.op = "approve" -> approve_serial(db, req)
      [] req.op = "decline" -> decline_serial(db, req)

\* the tables and the outcomes after order[1..k] ran one after another
RECURSIVE serial_run(_, _, _)
serial_run(db, order, k) ==
    IF k = 0
    THEN [Money |-> db.Money, Transfer |-> db.Transfer, outcomes |-> <<>>]
    ELSE LET before == serial_run(db, order, k - 1)
             r == serial(before, order[k])
         IN  [Money |-> r.Money, Transfer |-> r.Transfer,
              outcomes |-> Append(before.outcomes, r.outcome)]

Orders(n) == {f \in [1..n -> 1..n] : \A a, b \in 1..n : f[a] = f[b] => a = b}

\* every process is between requests: all that ran is committed or rolled back
quiescent == \A p \in Procs : pc[p] \in {"idle", "done"}

InitSerial ==
    /\ InitTables
    /\ history = [on |-> TRUE, init |-> Money, log |-> <<>>]

NextSerial ==
    \E p \in Procs :
        \/ create_transfer_validate(p)
        \/ create_transfer_duplicates(p)
        \/ create_transfer_flush(p)
        \/ create_transfer_commit(p)
        \/ approve_get_instance(p)
        \/ approve_money(p)
        \/ approve_commit(p)
        \/ decline_get_instance(p)
        \/ decline_commit(p)

\* create_transfer, approve and decline transactions only, with the history
SpecSerial == InitSerial /\ [][NextSerial]_vars

\* ------------------------------------------------------- properties
\* the step in which process p sends its response
answers(p) == pc[p] # "done" /\ pc'[p] = "done"

\* a committed row of the transfer table with status initial for (source, money)
active(i, source, money) ==
    /\ Transfer[i].xmin = 0
    /\ Transfer[i].status = initial
    /\ Transfer[i].source = source
    /\ Transfer[i].money = money

\* C1: in every reachable state no two rows of the transfer table (committed
\* or flushed, deleted or not) have status initial and the same source and
\* money, whatever create_transfer, approve, decline and soft-delete
\* transactions run concurrently.
C1_OneInitialPerPair ==
    \A i, j \in DOMAIN Transfer :
        (/\ i # j
         /\ Transfer[i].status = initial
         /\ Transfer[j].status = initial
         /\ Transfer[i].money = Transfer[j].money)
        => Transfer[i].source # Transfer[j].source

\* C1 witness: a create_transfer was refused as a duplicate while the initial
\* transfer of its (source, money) pair is in the table.
C1_Witness ==
    /\ response.request.op = "create_transfer"
    /\ response.outcome = "UniqueError"
    /\ \E i \in DOMAIN Transfer :
           active(i, response.request.source, response.request.money)

\* C2: of the approve transactions on one transfer exactly one succeeds and
\* the owner is reassigned once: an approve that answers after another approve
\* of the same transfer committed (having read the transfer before or after
\* that commit) fails with UndefinedError (NotFound) or MissingObjectsError
\* (MissingReferences) and changes no row.
C2_OneApproveSucceeds ==
    [][\A p \in Procs :
          (/\ answers(p)
           /\ response'.request.op = "approve"
           /\ response'.request.obj_id \in DOMAIN Transfer
           /\ Transfer[response'.request.obj_id].xmin = 0
           /\ Transfer[response'.request.obj_id].status = approved)
          => /\ response'.outcome \in {"UndefinedError", "MissingObjectsError"}
             /\ Money' = Money
             /\ Transfer' = Transfer]_vars

\* C3: a successful approve of transfer t, by the destination or by an
\* administrator, sets the owner of t's item to t.destination, sets t.status
\* to approved and stamps t.closed_at.
C3_ApproveMovesToDestination ==
    [][\A p \in Procs :
          (pc[p] = "approve_commit" /\ answers(p))
          => /\ Money'[transfer[p].money].user = transfer[p].destination
             /\ Transfer'[transfer[p].id].status = approved
             /\ Transfer'[transfer[p].id].closed_at # NULL]_vars

\* C4: once a transfer's committed status is approved or declined, no later
\* state has another status or another closed_at for it.
C4_TerminalAbsorbing ==
    [][\A i \in DOMAIN Transfer :
          (Transfer[i].xmin = 0 /\ Transfer[i].status \in {approved, declined})
          => /\ Transfer'[i].status = Transfer[i].status
             /\ Transfer'[i].closed_at = Transfer[i].closed_at]_vars

\* C5: whenever no transaction is running, the committed owner of every item
\* and status of every transfer, and the outcome of every create_transfer,
\* approve and decline answered so far, are those of running the same requests
\* one after another in some order from the initial tables.
C5_Serializable ==
    (history.on /\ quiescent)
    => \E f \in Orders(Len(history.log)) :
           LET n == Len(history.log)
               r == serial_run([Money |-> history.init, Transfer |-> <<>>],
                               [k \in 1..n |-> history.log[f[k]].request], n)
           IN  /\ \A m \in MoneyIds : r.Money[m].user = Money[m].user
               /\ Len(r.Transfer) = Len(Transfer)
               /\ \A i \in DOMAIN Transfer : r.Transfer[i].status = Transfer[i].status
               /\ \A k \in 1..n : r.outcomes[k] = history.log[f[k]].outcome

\* C6: a create_transfer that reaches its duplicate query while a committed,
\* not deleted transfer with its source and money has status initial fails
\* with UniqueError and inserts no row; when every transfer of the pair is
\* approved or declined the query does not stop it, and it goes on to insert.
C6_UniqueGuard ==
    [][\A p \in Procs :
          (pc[p] = "create_duplicates" /\ pc'[p] # "create_duplicates")
          => IF \E i \in DOMAIN Transfer :
                    /\ active(i, request[p].source, request[p].money)
                    /\ Transfer[i].deleted_at = NULL
             THEN /\ answers(p)
                  /\ response'.outcome = "UniqueError"
                  /\ Transfer' = Transfer
             ELSE pc'[p] = "create_flush"]_vars

\* C6 witness: after a transfer of a (source, money) pair was closed, a later
\* create_transfer of the same pair committed its initial row.
C6_Witness ==
    \E i, j \in DOMAIN Transfer :
        /\ i < j
        /\ Transfer[i].source = Transfer[j].source
        /\ Transfer[i].money = Transfer[j].money
        /\ Transfer[i].status \in {approved, declined}
        /\ Transfer[j].status = initial
        /\ Transfer[j].xmin = 0

\* C7 as claimed: create_transfer by an administrator with source =
\* destination, an existing account, and an existing item fails with
\* SelfTransferError and inserts no row, whoever owns the item.
C7_SelfTransferWhoeverOwns ==
    [][\A p \in Procs :
          (/\ answers(p)
           /\ response'.request.op = "create_transfer"
           /\ is_admin(response'.request.user)
           /\ response'.request.source \in AccountIds
           /\ response'.request.source = response'.request.destination
           /\ Money[response'.request.money].deleted_at = NULL)
          => /\ response'.outcome = "SelfTransferError"
             /\ Transfer' = Transfer]_vars

\* C7 amended: such a create_transfer never goes past validation and inserts
\* no row; it fails with SelfTransferError when the source owns the item and
\* with OwnerMismatchError when it does not.
C7_SelfTransferOfOwner ==
    [][\A p \in Procs :
          /\ (request'[p].op = "create_transfer"
              => request'[p].source # request'[p].destination)
          /\ (/\ answers(p)
              /\ response'.request.op = "create_transfer"
              /\ is_admin(response'.request.user)
              /\ response'.request.source \in AccountIds
              /\ response'.request.source = response'.request.destination
              /\ Money[response'.request.money].deleted_at = NULL)
             => /\ Transfer' = Transfer
                /\ response'.outcome =
                       IF Money[response'.request.money].user = response'.request.source
                       THEN "SelfTransferError"
                       ELSE "OwnerMismatchError"]_vars

\* C7 witness: a create_transfer from an account to itself was refused.
C7_Witness ==
    /\ response.request.op = "create_transfer"
    /\ response.request.source \in AccountIds
    /\ response.request.source = response.request.destination
    /\ response.outcome = "SelfTransferError"

\* C8: a create_transfer by an administrator naming existing accounts and an
\* existing item whose owner is not the source fails with OwnerMismatchError
\* and inserts no row;
\* a row is inserted only by a create_transfer that holds the item's row lock
\* while the item's owner equals the source, and the row has status initial,
\* closed_at empty and the caller as creater.
C8_OwnerMismatch ==
    [][/\ \A p \in Procs :
            /\ (/\ answers(p)
                /\ response'.request.op = "create_transfer"
                /\ is_admin(response'.request.user)
                /\ response'.request.source \in AccountIds
                /\ response'.request.destination \in AccountIds
                /\ Money[response'.request.money].deleted_at = NULL
                /\ Money[response'.request.money].user # response'.request.source)
               => /\ response'.outcome = "OwnerMismatchError"
                  /\ Transfer' = Transfer
            /\ (pc[p] = "create_flush" /\ pc'[p] = "create_commit")
               => /\ Len(Transfer') = Len(Transfer) + 1
                  /\ LET row == Transfer'[Len(Transfer')] IN
                     /\ row.status = initial
                     /\ row.closed_at = NULL
                     /\ row.creater = request[p].user
                     /\ row.source = request[p].source
                     /\ row.money = request[p].money
                     /\ row_lock[row.money] = p
                     /\ Money[row.money].user = row.source
            /\ (pc[p] = "create_commit" /\ answers(p))
               => response'.outcome = "ok"
       /\ Len(Transfer') # Len(Transfer)
          => \E p \in Procs : pc[p] = "create_flush" /\ pc'[p] = "create_commit"]_vars

\* C8 witness: a create_transfer naming a source that does not own the item
\* was refused with OwnerMismatchError.
C8_Witness ==
    /\ response.request.op = "create_transfer"
    /\ response.request.source \in AccountIds
    /\ response.request.destination \in AccountIds
    /\ Money[response.request.money].user # response.request.source
    /\ response.outcome = "OwnerMismatchError"

\* C9: a decline that succeeds had read a visible initial transfer; its commit
\* sets that transfer's status to declined and its closed_at to the time the
\* handler read, and changes no other transfer and no Money row.
C9_DeclineFrame ==
    [][\A p \in Procs :
          (pc[p] = "decline_commit" /\ answers(p))
          => LET id == request[p].obj_id IN
             /\ response'.outcome = "ok"
             /\ transfer[p].status = initial
             /\ transfer[p].deleted_at = NULL
             /\ (is_admin(request[p].user) \/ transfer[p].destination = request[p].user)
             /\ Transfer'[id].status = declined
             /\ Transfer'[id].closed_at = stamp[p]
             /\ Transfer'[id].closed_at # NULL
             /\ \A j \in DOMAIN Transfer : j # id => Transfer'[j] = Transfer[j]
             /\ Money' = Money]_vars

\* C9 witness: a decline succeeded and its transfer is declined.
C9_Witness ==
    /\ response.request.op = "decline"
    /\ response.outcome = "ok"
    /\ Transfer[response.request.obj_id].status = declined

\* C10: an approve or decline that starts when its transfer is committed as
\* approved or declined fails at once with UndefinedError (NotFound), whoever
\* calls, and changes no Transfer and no Money row.
C10_ClosedNotFound ==
    [][\A p \in Procs :
          (pc[p] = "idle" /\ pc'[p] # "idle")
          => LET req == IF answers(p) THEN response'.request ELSE request'[p] IN
             (/\ req.op \in {"approve", "decline"}
              /\ req.obj_id \in DOMAIN Transfer
              /\ Transfer[req.obj_id].xmin = 0
              /\ Transfer[req.obj_id].status \in {approved, declined})
             => /\ answers(p)
                /\ response'.outcome = "UndefinedError"
                /\ Transfer' = Transfer
                /\ Money' = Money]_vars

\* C10 witness: an approve or decline of a closed transfer got UndefinedError.
C10_Witness ==
    /\ response.request.op \in {"approve", "decline"}
    /\ response.outcome = "UndefinedError"
    /\ response.request.obj_id \in DOMAIN Transfer
    /\ Transfer[response.request.obj_id].status \in {approved, declined}

C18_TypedErrors == response.outcome \in {"none", "ok"} \cup TypedErrors

\* C19: an approve holds the FOR UPDATE lock of the item row when it reads the
\* transfer through the status filter, and holds it when it checks the owner
\* and when it commits the new owner and status.
C19_LockBeforeStatusRead ==
    [][\A p \in Procs :
          /\ (pc[p] = "idle" /\ pc'[p] = "approve_money")
             => row_lock[transfer'[p].money] = p
          /\ (pc[p] = "approve_money" /\ pc'[p] = "approve_commit")
             => row_lock'[transfer[p].money] = p
          /\ (pc[p] = "approve_commit" /\ answers(p))
             => row_lock[transfer[p].money] = p]_vars

\* C20: an approve that read a visible initial transfer and finds the item
\* soft-deleted, or owned by another account than the transfer's source, fails
\* with MissingObjectsError (MissingReferences) and changes no Transfer and no
\* Money row; otherwise it goes on to commit.
C20_ApproveMissingReferences ==
    [][\A p \in Procs :
          (pc[p] = "approve_money" /\ pc'[p] # "approve_money")
          => LET item == Money[transfer[p].money] IN
             /\ transfer[p].status = initial
             /\ transfer[p].closed_at = NULL
             /\ IF item.deleted_at # NULL \/ item.user # transfer[p].source
                THEN /\ answers(p)
                     /\ response'.outcome = "MissingObjectsError"
                     /\ Transfer' = Transfer
                     /\ Money' = Money
                ELSE pc'[p] = "approve_commit"]_vars

\* C20 witness: an approve failed with MissingObjectsError and its transfer is
\* still initial with closed_at empty.
C20_Witness ==
    /\ response.request.op = "approve"
    /\ response.outcome = "MissingObjectsError"
    /\ Transfer[response.request.obj_id].status = initial
    /\ Transfer[response.request.obj_id].closed_at = NULL

\* C12: a create or update of an item by an authenticated caller fails with
\* MissingObjectsError (MissingReferences) carrying exactly the keys among
\* type_money, currency, mint and issuing_state whose id names no row or a
\* soft-deleted row, and then changes no Money row; when there is no such key
\* it does not fail with MissingObjectsError.
C12_MissingReferences ==
    [][\A p \in Procs :
          (pc[p] = "idle" /\ pc'[p] # "idle")
          => LET req == IF answers(p) THEN response'.request ELSE request'[p] IN
             (/\ req.op \in {"create", "update"}
              /\ req.model = "money"
              /\ req.user # 0)
             => LET missing == {k \in fields :
                                   ~\E i \in DOMAIN Catalog[k] :
                                        /\ Catalog[k][i].id = req.scheme[k]
                                        /\ Catalog[k][i].deleted_at = NULL}
                IN  IF missing # {}
                    THEN /\ answers(p)
                         /\ response'.outcome = "MissingObjectsError"
                         /\ response'.detail = missing
                         /\ Money' = Money
                    ELSE ~(answers(p) /\ response'.outcome = "MissingObjectsError")]_vars

\* C12 witness: an item request was refused naming two keys, one whose row is
\* soft-deleted and one whose id names no row.
C12_Witness ==
    /\ response.request.op \in {"create", "update"}
    /\ response.request.model = "money"
    /\ response.outcome = "MissingObjectsError"
    /\ \E k \in response.detail :
           /\ response.request.scheme[k] \in DOMAIN Catalog[k]
           /\ Catalog[k][response.request.scheme[k]].deleted_at # NULL
    /\ \E k \in response.detail : response.request.scheme[k] \notin DOMAIN Catalog[k]

\* the table a request reads, and the kind of the request
table_of(req) ==
    IF req.op \in {"delete_transfer", "transfer_get_by_id", "transfer_get_all",
                   "approve", "decline"}
    THEN Transfer
    ELSE IF req.model = "money" THEN Money
    ELSE IF req.model = "account" THEN Account
    ELSE Catalog[req.model]

is_fetch(req) == req.op \in {"get_by_id", "transfer_get_by_id"}
is_delete(req) == req.op \in {"delete_by_id", "delete_transfer"}
is_list(req) ==
    req.op \in {"get_all", "transfer_get_all", "get_all_money_for_super_user"}

\* the caller passed get_current_user, and get_super_user where the route
\* requires it
authorized(req) ==
    IF req.op = "delete_transfer"
    THEN Account[req.user].is_admin
    ELSE req.user # 0

\* the request process p takes up in this step
arriving(p) == IF answers(p) THEN response'.request ELSE request'[p]

\* C11: on every resolver (catalogs, account, money, transfer), a get_by_id or
\* a delete_by_id that an authorized caller starts on an id whose row is
\* committed as soft-deleted fails at once with UndefinedError (NotFound) and
\* changes no row, so deleted_at stays as first set; and no get_by_id or
\* get_all returns a row whose deleted_at is set.
C11_SoftDeleted ==
    [][\A p \in Procs :
          (pc[p] = "idle" /\ pc'[p] # "idle")
          => LET req == arriving(p)
                 rows == response'.detail
             IN  /\ (/\ is_fetch(req) \/ is_delete(req)
                     /\ authorized(req)
                     /\ req.obj_id \in DOMAIN table_of(req)
                     /\ table_of(req)[req.obj_id].deleted_at # NULL)
                    => /\ answers(p)
                       /\ response'.outcome = "UndefinedError"
                       /\ UNCHANGED <<Account, Catalog, Money, Transfer>>
                 /\ (/\ is_fetch(req) \/ is_list(req)
                     /\ answers(p)
                     /\ response'.outcome = "ok")
                    => \A k \in DOMAIN rows :
                           /\ rows[k].deleted_at = NULL
                           /\ table_of(req)[rows[k].id].deleted_at = NULL]_vars

\* C11 witness: a second delete_by_id of a soft-deleted row was answered
\* UndefinedError and the row keeps its deleted_at.
C11_Witness ==
    /\ is_delete(response.request)
    /\ authorized(response.request)
    /\ response.outcome = "UndefinedError"
    /\ response.request.obj_id \in DOMAIN table_of(response.request)
    /\ table_of(response.request)[response.request.obj_id].deleted_at # NULL

\* C15: get_by_id, update and delete_by_id on an item, and get_by_id, approve
\* and decline on a transfer, answer an authenticated caller in the same way
\* for an id whose row exists but is filtered out (item of another owner;
\* transfer closed or addressed to another account) and for an id with no row:
\* UndefinedError (NotFound), or for an update whose references fail
\* validation the same MissingObjectsError, and no row changes.
C15_AbsentOrFiltered ==
    [][\A p \in Procs :
          (pc[p] = "idle" /\ pc'[p] # "idle")
          => LET req == arriving(p)
                 on_item == /\ req.op \in {"get_by_id", "update", "delete_by_id"}
                            /\ req.model = "money"
                 on_transfer == req.op \in {"transfer_get_by_id", "approve", "decline"}
                 absent == req.obj_id \notin DOMAIN table_of(req)
                 row == table_of(req)[req.obj_id]
                 filtered ==
                     IF on_item
                     THEN row.user # req.user
                     ELSE \/ row.status # initial
                          \/ ~Account[req.user].is_admin /\ row.destination # req.user
                 missing == {k \in fields :
                                ~\E i \in DOMAIN Catalog[k] :
                                     /\ Catalog[k][i].id = req.scheme[k]
                                     /\ Catalog[k][i].deleted_at = NULL}
             IN  (/\ on_item \/ on_transfer
                  /\ req.user # 0
                  /\ absent \/ filtered)
                 => /\ answers(p)
                    /\ IF req.op = "update" /\ missing # {}
                       THEN /\ response'.outcome = "MissingObjectsError"
                            /\ response'.detail = missing
                       ELSE /\ response'.outcome = "UndefinedError"
                            /\ response'.detail = <<>>
                    /\ UNCHANGED <<Account, Catalog, Money, Transfer>>]_vars

\* C15 witness: an update of an item that exists and belongs to another
\* account was answered UndefinedError.
C15_Witness ==
    /\ response.request.op = "update"
    /\ response.request.model = "money"
    /\ response.request.user # 0
    /\ response.outcome = "UndefinedError"
    /\ response.request.obj_id \in DOMAIN Money
    /\ Money[response.request.obj_id].deleted_at = NULL
    /\ Money[response.request.obj_id].user # response.request.user

\* the request came to a CRUD route with credentials (the transfer workflow's
\* requests carry the account itself)
with_credentials(req) ==
    req.op \in {"create", "update", "delete_by_id", "get_by_id", "get_all",
                "get_all_money_for_super_user", "me"}

\* C13: a request whose credentials name an account that is soft-deleted fails
\* at once with UnauthorizedError and changes no row.
C13_DeletedAccountUnauthorized ==
    [][\A p \in Procs :
          (pc[p] = "idle" /\ pc'[p] # "idle")
          => LET req == arriving(p) IN
             (/\ with_credentials(req)
              /\ \E i \in DOMAIN Account :
                     Account[i].name = req.name /\ Account[i].deleted_at # NULL)
             => /\ answers(p)
                /\ response'.outcome = "UnauthorizedError"
                /\ UNCHANGED <<Account, Catalog, Money, Transfer>>]_vars

\* C16: a route that requires an administrator (create and delete on a
\* catalog, create, update and delete on /account, create and delete on
\* /transfer), called by an account that exists, is not deleted and is not an
\* administrator, fails at once, changes no row, and fails otherwise than a
\* call whose credentials name no account.
C16_ForbiddenDistinct ==
    [][\A p \in Procs :
          (pc[p] = "idle" /\ pc'[p] # "idle")
          => LET req == arriving(p)
                 privileged ==
                     \/ req.op \in {"create_transfer", "delete_transfer"}
                     \/ /\ req.op \in {"create", "delete_by_id"}
                        /\ req.model \in fields
                     \/ /\ req.op \in {"create", "update", "delete_by_id"}
                        /\ req.model = "account"
                 caller ==
                     IF with_credentials(req)
                     THEN {i \in DOMAIN Account : Account[i].name = req.name}
                     ELSE {req.user}
             IN  (/\ privileged
                  /\ \E i \in caller :
                         Account[i].deleted_at = NULL /\ ~Account[i].is_admin)
                 => /\ answers(p)
                    /\ response'.outcome # "ok"
                    /\ UNCHANGED <<Account, Catalog, Money, Transfer>>
                    /\ \A n \in Names :
                           (\A i \in DOMAIN Account : Account[i].name # n)
                           => response'.outcome # get_current_user(Account, n).error]_vars

\* C21: an update on /account by an administrator, on an account that exists
\* and is not deleted, is not refused when no other account that is not deleted
\* has the new name (the account's own current name included); it is answered
\* UniqueError only when a different account has that name.
C21_AccountUpdate ==
    [][\A p \in Procs :
          (pc[p] = "idle" /\ pc'[p] # "idle")
          => LET req == arriving(p)
                 others ==
                     {i \in DOMAIN Account :
                          /\ i # req.obj_id
                          /\ Account[i].deleted_at = NULL
                          /\ Account[i].name = req.scheme.name}
             IN  (/\ req.op = "update"
                  /\ req.model = "account"
                  /\ req.user # 0
                  /\ req.obj_id \in DOMAIN Account
                  /\ Account[req.obj_id].deleted_at = NULL)
                 => /\ others = {} => ~answers(p)
                    /\ (answers(p) /\ response'.outcome = "UniqueError")
                       => others # {}]_vars

\* C22: in every reachable state, every committed row of the transfer table
\* that is not deleted and has status initial has as its source the current
\* owner of its item, whatever create_transfer, approve and decline
\* transactions run concurrently.
C22_InitialSourceOwns ==
    \A i \in DOMAIN Transfer :
        (/\ Transfer[i].xmin = 0
         /\ Transfer[i].deleted_at = NULL
         /\ Transfer[i].status = initial)
        => Money[Transfer[i].money].user = Transfer[i].source

\* C23: in every reachable state the closed_at of a row of the transfer table
\* (committed or flushed, deleted or not) is empty if and only if its status
\* is initial: create_transfer inserts status initial with closed_at empty,
\* approve and decline set status and closed_at together.
C23_ClosedAtIffNotInitial ==
    \A i \in DOMAIN Transfer :
        (Transfer[i].closed_at = NULL) <=> (Transfer[i].status = initial)

\* C23 witness: an approve has just committed and its transfer is approved
\* and closed, while a transfer inserted by create_transfer is initial and open.
C23_Witness ==
    /\ response.request.op = "approve"
    /\ response.outcome = "ok"
    /\ Transfer[response.request.obj_id].status = approved
    /\ Transfer[response.request.obj_id].closed_at # NULL
    /\ \E j \in DOMAIN Transfer :
           Transfer[j].status = initial /\ Transfer[j].closed_at = NULL

\* C24: the owner of an existing item changes only in the step in which an
\* approve commits and answers ok: every other step (item update, item
\* soft-delete, create_transfer, decline, a failed approve, every catalog and
\* account route) leaves the owner of every item as it was; no item row is
\* removed; and a new item row is inserted only by a create on /money that
\* answers ok, with the account of the caller as its owner.
C24_OwnerFrame ==
    [][/\ DOMAIN Money \subseteq DOMAIN Money'
       /\ \A m \in DOMAIN Money :
              Money'[m].user # Money[m].user
              => \E p \in Procs :
                     /\ pc[p] = "approve_commit"
                     /\ answers(p)
                     /\ response'.request.op = "approve"
                     /\ response'.outcome = "ok"
                     /\ transfer[p].money = m
       /\ \A m \in DOMAIN Money' \ DOMAIN Money :
              /\ response'.request.op = "create"
              /\ response'.request.model = "money"
              /\ response'.outcome = "ok"
              /\ \E p \in Procs : answers(p)
              /\ Money'[m].user = response'.request.user]_vars

\* C24 witness: an approve has moved an item, and a create on /money by an
\* account other than the first has just inserted an item that the caller owns.
C24_Witness ==
    /\ \E i \in DOMAIN Transfer : Transfer[i].status = approved
    /\ response.request.op = "create"
    /\ response.request.model = "money"
    /\ response.outcome = "ok"
    /\ response.request.user # 1
    /\ Len(Money) > Cardinality(MoneyIds)
    /\ Money[Len(Money)].user = response.request.user

\* the transactions p waits for, directly or through n more transactions
RECURSIVE waits_through(_, _)
waits_through(p, n) ==
    IF n = 0
    THEN waits_for(p)
    ELSE waits_for(p) \cup UNION {waits_through(q, n - 1) : q \in waits_for(p)}

\* a request that has begun and has not been answered
in_transaction(p) == pc[p] \notin {"idle", "done"}

====
